---- MODULE Spec2Model ----
(***************************************************************************)
(* State machine of the LightPainter component (src/unnamed/part_000):     *)
(* the stroke capture pipeline (pointer down / move / up), the stroke      *)
(* history (undo / redo / clear), the input smoother, the two point        *)
(* simplifiers, the brush renderer and the frame loop.                     *)
(*                                                                         *)
(* Conventions                                                             *)
(*  - React state (useState) and refs (useRef) are the variables, under    *)
(*    the names the component gives them.  A handler runs against the      *)
(*    state of the latest render, and its updates and the re-render are    *)
(*    applied before the next handler or frame callback runs, so one       *)
(*    handler is one atomic action.  The effect of lines 516-524 that the  *)
(*    re-render triggers is a passive effect (useEffect): React runs it in *)
(*    the same task when the update comes from a discrete event            *)
(*    (pointerdown, pointerup, click) and schedules it for a later task    *)
(*    otherwise (pointermove, pointerleave, the setCtx of the mount        *)
(*    effect), running it at the latest before the next render.  A         *)
(*    scheduled effect is `effectDue`; frame callbacks and the clock may   *)
(*    run before it does.                                                  *)
(*  - A nullable value is a sequence of length 0 (null) or 1.              *)
(*  - Coordinates are integers in 1/Unit of a CSS pixel, with              *)
(*    Unit = 10^MaxPointer, so that the smoother's 0.7/0.3 blend is exact    *)
(*    for every sample a session of the model accepts.  Floating-point     *)
(*    rounding is not modelled.                                            *)
(*  - Pressure is in percent (PointerEvent.pressure 0.5 is 50).            *)
(*  - Time is in milliseconds; `now` is the clock that Date.now() and      *)
(*    performance.now() read.                                              *)
(*  - The toolbar disables Undo / Clear when `strokes` is empty and Redo   *)
(*    when `redoStack` is empty (lines 1009, 1022, 1035); the handlers     *)
(*    themselves are modelled as commands that can be invoked in any       *)
(*    state, which is how their own guards (lines 658, 668) treat them.    *)
(*  - The 2D context is its drawing state and its save() stack.  A         *)
(*    drawing routine is the sequence of save / restore / property writes  *)
(*    it performs, run against the context by Run; what it paints is       *)
(*    summarised per call (DrawCall).  A property value is a tuple: a      *)
(*    width is <<size, pressure, factor in percent, wave, time>>, a colour *)
(*    is <<hex colour, adjustment>>.                                       *)
(*  - requestAnimationFrame's queue is `pending`: the callbacks requested  *)
(*    and neither run nor cancelled, oldest first.  A callback is the      *)
(*    `animate` closure of one render, that is the ctx, strokes and        *)
(*    tempStroke of that render.                                           *)
(***************************************************************************)
EXTENDS Integers, Sequences, FiniteSets, TLC

\* ------------------------------------------------------------------ bounds
MaxPointer == 4      \* pointer-down events and accepted samples in one behaviour
MaxEnv == 1          \* clock advances and control changes in one behaviour
StartTime == 40000   \* clock value at the start of a behaviour
SampleGap == 20      \* the shortest clock advance (ms)
LongGap == 32        \* spacing (ms) of the samples of a long stroke in progress
LongPointer == 1     \* as MaxPointer, for behaviours that start on a long stroke
LongEnv == 1         \* as MaxEnv, for behaviours that start on a long stroke
LivePointer == 2     \* as MaxPointer, for behaviours checked for progress
LiveEnv == 1         \* as MaxEnv, for behaviours checked for progress
BrushPointer == 2    \* as MaxPointer, for behaviours that start on any brush
BrushEnv == 1        \* as MaxEnv, for behaviours that start on any brush

\* ------------------------------------------------------- program constants
BaseInterval == 16       \* moveThrottleRef initial value and floor
MaxInterval == 32        \* ceiling of the adaptive interval
IntervalUp == 2          \* growth per accepted sample under load
IntervalDown == 1        \* decay per accepted sample otherwise
LoadPoints == 100        \* stroke length above which the interval grows
LoadWindow == 1000       \* age (ms) below which the last point counts as recent
StoreLimit == 500        \* storage simplification threshold
RenderLimit == 200       \* render-time simplification threshold
RenderStep == 2          \* render-time simplification keeps every 2nd point
AlphaNum == 7            \* alpha = 0.7 = AlphaNum / AlphaDen
AlphaDen == 10
DefaultPressure == 100   \* pressure used when the device reports none
DefaultSize == 30        \* useState(30)
FrameInterval == 16      \* animate: a callback sooner than this is skipped
MinPoints == 2           \* drawBrush and the ghost pass draw nothing below this
WidthEvery == 5          \* ripple: lineWidth is written at every 5th point
CoreAbove == 10          \* ripple: the core line is drawn above 10 points
CoreFactor == 40         \* ripple: core width = size * 0.4 * scale
GlowFactor == 150        \* pulse: glow width = size * scale * 1.5
ParticleMin == 4         \* particle: smallest spacing of the discs
ParticleDiv == 40        \* particle: spacing = floor(length / 40)
SatelliteAlpha == 60     \* particle: globalAlpha 0.6 of the satellites
SatellitePairs == 2      \* particle: satellites at every 2nd disc, 2 of them
GhostAlpha == 95         \* ghost pass: globalAlpha 0.95
GhostFactor == 80        \* ghost pass: width = size * 0.8
BlurTenths == 5          \* shadowBlur = size * 0.5, kept in tenths of a pixel
Full == 100              \* 1.0 in percent: globalAlpha = 1.0, a plain width

RECURSIVE Pow10(_)
Pow10(k) == IF k = 0 THEN 1 ELSE 10 * Pow10(k - 1)

Unit == Pow10(MaxPointer)

BrushStyles == {"ripple", "pulse", "particle"}
Colors == {"#50E3C2", "#79FFE1"}
Sizes == {DefaultSize, 5}
\* pointer samples: position relative to the canvas and PointerEvent.pressure
Samples == {[x |-> 0, y |-> 0, pressure |-> 0],
            [x |-> 10 * Unit, y |-> 20 * Unit, pressure |-> 50]}
Delays == {SampleGap, MaxInterval, LoadWindow}
\* handlePointerUp is bound to both events (lines 938-939)
EndEvents == {"pointerup", "pointerleave"}

VARIABLES
    mounted,          \* FALSE once the component has been unmounted
    ctx,              \* TRUE when a 2D context has been acquired (ctx !== null)
    isDrawing,
    tempStroke,       \* <<>> or <<stroke>>
    strokes,          \* committed strokes, oldest first
    redoStack,        \* undone strokes, most recently undone last
    brushSize, brushStyle, selectedColor,
    lastPointRef,     \* <<>> or <<[x, y]>>: the smoother's reference
    lastMoveTimeRef,
    moveThrottleRef,
    lastTimeRef,
    animationRef,     \* position in `pending` of the callback animationRef
                      \* names, 0 when that callback has run or been cancelled
    pending,          \* requestAnimationFrame's queue
    effectDue,        \* TRUE while the effect of lines 516-524 is scheduled
                      \* for the last render and has not run
    canvas,           \* the 2D context: [state, stack]
    now,              \* the clock
    op,               \* the handler that ran last and what it did
    fuel,             \* what is left of the exploration bounds
    lastFrameAt       \* history: when the last frame was accepted, 0 if never

vars == <<mounted, ctx, isDrawing, tempStroke, strokes, redoStack, brushSize,
          brushStyle, selectedColor, lastPointRef, lastMoveTimeRef,
          moveThrottleRef, lastTimeRef, animationRef, pending, effectDue,
          canvas, now, op, fuel, lastFrameAt>>

controls == <<brushSize, brushStyle, selectedColor>>

\* the frame loop's own state
frame == <<lastTimeRef, animationRef, pending, effectDue>>

\* everything the component itself holds (no clock, no bookkeeping)
engine == <<mounted, ctx, isDrawing, tempStroke, strokes, redoStack, controls,
            lastPointRef, lastMoveTimeRef, moveThrottleRef, frame, canvas>>

history == <<lastFrameAt>>

Max(a, b) == IF a > b THEN a ELSE b
Min(a, b) == IF a < b THEN a ELSE b
Last(s) == s[Len(s)]

\* Math.ceil(a / b) for a >= 0, b > 0
Ceil(a, b) == (a + b - 1) \div b

RECURSIVE Flatten(_, _)
Flatten(lists, i) ==
    IF i > Len(lists) THEN <<>> ELSE lists[i] \o Flatten(lists, i + 1)

\* ----------------------------------------------------------- pure helpers

\* e.pressure > 0 ? e.pressure : 1
Pressure(ep) == IF ep > 0 THEN ep ELSE DefaultPressure

\* Array.prototype.filter((_, i) => ...) sees each element with its 0-based
\* index: the array as <<index, element>> pairs, of which SelectSeq keeps
\* those that pass, in array order.
Indexed(s) == [i \in 1..Len(s) |-> <<i - 1, s[i]>>]

Elements(pairs) == [j \in 1..Len(pairs) |-> pairs[j][2]]
Indices(pairs) == [j \in 1..Len(pairs) |-> pairs[j][1]]

\* handlePointerUp, lines 637-643: the predicate of the storage filter
StoreKeep_DropsLast(n, i) == i % Ceil(n, StoreLimit) = 0

StoreKeep(n, i) == i % Ceil(n, StoreLimit) = 0 \/ i = n - 1

StorageKept(points) ==
    SelectSeq(Indexed(points), LAMBDA p : StoreKeep(Len(points), p[1]))

StorageSimplify(points) ==
    IF Len(points) > StoreLimit THEN Elements(StorageKept(points)) ELSE points

\* drawBrush, lines 251-256: the predicate of the render filter
RenderKeep(n, i) == i % RenderStep = 0 \/ i = n - 1

RenderKept(points) ==
    SelectSeq(Indexed(points), LAMBDA p : RenderKeep(Len(points), p[1]))

RenderSimplify(points) ==
    IF Len(points) > RenderLimit THEN Elements(RenderKept(points)) ELSE points

\* smoothInput, lines 526-541: the returned point and the new reference
Blend(raw, ref) == (AlphaNum * raw + (AlphaDen - AlphaNum) * ref) \div AlphaDen

smoothInput_ReferenceIsRaw(point, pressure, ref) ==
    IF ref = <<>>
    THEN [out |-> [x |-> point.x, y |-> point.y, pressure |-> pressure],
          ref |-> <<point>>]
    ELSE LET sx == Blend(point.x, ref[1].x)
             sy == Blend(point.y, ref[1].y)
         IN [out |-> [x |-> sx, y |-> sy, pressure |-> pressure],
             ref |-> <<point>>]

smoothInput(point, pressure, ref) ==
    IF ref = <<>>
    THEN [out |-> [x |-> point.x, y |-> point.y, pressure |-> pressure],
          ref |-> <<point>>]
    ELSE LET sx == Blend(point.x, ref[1].x)
             sy == Blend(point.y, ref[1].y)
         IN [out |-> [x |-> sx, y |-> sy, pressure |-> pressure],
             ref |-> <<[x |-> sx, y |-> sy]>>]

\* handlePointerMove, lines 601-608: the adaptive interval step
NextThrottle_NoCeiling(points, t, throttle) ==
    IF Len(points) > LoadPoints /\ Last(points).timestamp > t - LoadWindow
    THEN throttle + IntervalUp
    ELSE Max(BaseInterval, throttle - IntervalDown)

NextThrottle_IgnoresAge(points, t, throttle) ==
    IF Len(points) > LoadPoints
    THEN Min(MaxInterval, throttle + IntervalUp)
    ELSE Max(BaseInterval, throttle - IntervalDown)

NextThrottle(points, t, throttle) ==
    IF Len(points) > LoadPoints /\ Last(points).timestamp > t - LoadWindow
    THEN Min(MaxInterval, throttle + IntervalUp)
    ELSE Max(BaseInterval, throttle - IntervalDown)

\* handlePointerUp, line 634
ShouldCommit_OffByOne(points) == Len(points) > 0

ShouldCommit(points) == Len(points) > 1

\* handleUndo / handleRedo updaters on the pair <<strokes, redoStack>>
UndoResult_Prepend(h) ==
    IF Len(h[1]) = 0 THEN h
    ELSE <<SubSeq(h[1], 1, Len(h[1]) - 1), <<Last(h[1])>> \o h[2]>>

UndoResult_KeepsLast(h) ==
    IF Len(h[1]) = 0 THEN h
    ELSE <<h[1], Append(h[2], Last(h[1]))>>

UndoResult(h) ==
    IF Len(h[1]) = 0 THEN h
    ELSE <<SubSeq(h[1], 1, Len(h[1]) - 1), Append(h[2], Last(h[1]))>>

RedoResult_TakesFirst(h) ==
    IF Len(h[2]) = 0 THEN h
    ELSE <<Append(h[1], h[2][1]), SubSeq(h[2], 2, Len(h[2]))>>

RedoResult_KeepsInRedo(h) ==
    IF Len(h[2]) = 0 THEN h
    ELSE <<Append(h[1], Last(h[2])), h[2]>>

RedoResult(h) ==
    IF Len(h[2]) = 0 THEN h
    ELSE <<Append(h[1], Last(h[2])), SubSeq(h[2], 1, Len(h[2]) - 1)>>


\* ---------------------------------------------------------- the 2D context

\* the drawing state of a context whose canvas has just been sized
CanvasDefault ==
    [lineWidth |-> <<1, DefaultPressure, Full, "none", 0>>,
     globalAlpha |-> Full,
     strokeStyle |-> <<"#000000", "none">>,
     fillStyle |-> <<"#000000", "none">>,
     shadowBlur |-> 0,
     shadowColor |-> <<"rgba(0, 0, 0, 0)", "none">>,
     lineCap |-> "butt",
     lineJoin |-> "miter",
     globalCompositeOperation |-> "source-over"]

Save == [k |-> "save"]
Restore == [k |-> "restore"]
Write(f, v) == [k |-> "set", f |-> f, v |-> v]

\* one context operation; restore() on an empty stack does nothing
Step(c, o) ==
    CASE o.k = "save" -> [c EXCEPT !.stack = <<c.state>> \o @]
      [] o.k = "restore" ->
            IF Len(c.stack) = 0 THEN c
            ELSE [state |-> Head(c.stack), stack |-> Tail(c.stack)]
      [] o.k = "set" -> [c EXCEPT !.state = [@ EXCEPT ![o.f] = o.v]]

\* the context after the operations ops[lo..hi], in order (the test on the
\* stack is always true: it makes TLC evaluate the first half before it
\* starts on the second, which keeps its evaluation stack shallow)
RECURSIVE RunFrom(_, _, _, _)
RunFrom(c, ops, lo, hi) ==
    IF lo > hi THEN c
    ELSE IF lo = hi THEN Step(c, ops[lo])
    ELSE LET mid == (lo + hi) \div 2
             half == RunFrom(c, ops, lo, mid)
         IN IF Len(half.stack) >= 0 THEN RunFrom(half, ops, mid + 1, hi) ELSE half

Run(c, ops) == RunFrom(c, ops, 1, Len(ops))

\* initCanvas, lines 62-77: assigning canvas.width resets the context, then
\* the composite operation, the join and the cap are set
SizedCanvas ==
    [state |-> [CanvasDefault EXCEPT !.globalCompositeOperation = "lighter",
                                     !.lineJoin = "round",
                                     !.lineCap = "round"],
     stack |-> <<>>]

\* ------------------------------------------------------- the brush renderer

\* drawBrush, lines 260-298
RippleWrites(stroke, pts, t) ==
    LET n == Len(pts)
        at == SelectSeq(Indexed(pts),
                        LAMBDA p : p[1] >= 1 /\ (p[1] % WidthEvery = 0 \/ p[1] = n - 1))
    IN [j \in 1..Len(at) |->
           Write("lineWidth", <<stroke.size, at[j][2].pressure, Full, "ripple", t>>)]
       \o <<Write("strokeStyle", <<stroke.color, "none">>)>>
       \o (IF n > CoreAbove
           THEN <<Write("lineWidth", <<stroke.size, DefaultPressure, CoreFactor, "ripple", t>>),
                  Write("strokeStyle", <<stroke.color, "brighter">>)>>
           ELSE <<>>)

\* drawBrush, lines 303-326
PulseWrites(stroke, pts, t) ==
    <<Write("lineWidth", <<stroke.size, DefaultPressure, Full, "pulse", t>>),
      Write("strokeStyle", <<stroke.color, "none">>),
      Write("lineWidth", <<stroke.size, DefaultPressure, GlowFactor, "pulse", t>>),
      Write("strokeStyle", <<stroke.color, "translucent">>)>>

\* drawBrush, lines 330-366
ParticleWrites(stroke, pts, t) ==
    LET spacing == Max(ParticleMin, Len(pts) \div ParticleDiv)
        at == SelectSeq(Indexed(pts), LAMBDA p : p[1] % spacing = 0)
        satellite == <<Write("fillStyle", <<stroke.color, "none">>),
                       Write("globalAlpha", SatelliteAlpha)>>
    IN Flatten([j \in 1..Len(at) |->
                   <<Write("fillStyle", <<stroke.color, "none">>)>>
                   \o (IF at[j][1] % (spacing * SatellitePairs) = 0
                       THEN Flatten([k \in 1..SatellitePairs |-> satellite], 1)
                            \o <<Write("globalAlpha", Full)>>
                       ELSE <<>>)], 1)

\* drawBrush, lines 240-373, as the context operations it performs at clock t
drawBrush_NoRestore(stroke, context, t) ==
    IF ~context \/ Len(stroke.points) < MinPoints THEN <<>>
    ELSE LET pts == RenderSimplify(stroke.points)
         IN <<Save,
              Write("lineCap", "round"),
              Write("lineJoin", "round"),
              Write("shadowBlur", stroke.size * BlurTenths),
              Write("shadowColor", <<stroke.color, "none">>)>>
            \o (CASE stroke.brush = "ripple" -> RippleWrites(stroke, pts, t)
                  [] stroke.brush = "pulse" -> PulseWrites(stroke, pts, t)
                  [] stroke.brush = "particle" -> ParticleWrites(stroke, pts, t))

drawBrush(stroke, context, t) ==
    IF ~context \/ Len(stroke.points) < MinPoints THEN <<>>
    ELSE LET pts == RenderSimplify(stroke.points)
         IN <<Save,
              Write("lineCap", "round"),
              Write("lineJoin", "round"),
              Write("shadowBlur", stroke.size * BlurTenths),
              Write("shadowColor", <<stroke.color, "none">>)>>
            \o (CASE stroke.brush = "ripple" -> RippleWrites(stroke, pts, t)
                  [] stroke.brush = "pulse" -> PulseWrites(stroke, pts, t)
                  [] stroke.brush = "particle" -> ParticleWrites(stroke, pts, t))
            \o <<Restore>>

\* animate, lines 485-504: the ghost pass over one committed stroke
GhostStroke(stroke) ==
    IF Len(stroke.points) < MinPoints THEN <<>>
    ELSE <<Save,
           Write("lineCap", "round"),
           Write("lineJoin", "round"),
           Write("shadowBlur", stroke.size * BlurTenths),
           Write("shadowColor", <<stroke.color, "none">>),
           Write("strokeStyle", <<stroke.color, "none">>),
           Write("lineWidth", <<stroke.size, DefaultPressure, GhostFactor, "none", 0>>),
           Restore>>

\* animate, lines 483-506
GhostPass(list) ==
    IF Len(list) > 0
    THEN <<Write("globalAlpha", GhostAlpha)>>
         \o Flatten([i \in 1..Len(list) |-> GhostStroke(list[i])], 1)
         \o <<Write("globalAlpha", Full)>>
    ELSE <<>>

\* animate, lines 482-511: the context operations of an accepted frame drawn
\* by the callback cb at clock t
FrameWrites(cb, t) ==
    IF cb.tempStroke # <<>>
    THEN GhostPass(cb.strokes) \o drawBrush(cb.tempStroke[1], cb.ctx, t)
    ELSE Flatten([i \in 1..Len(cb.strokes) |-> drawBrush(cb.strokes[i], cb.ctx, t)], 1)

\* what one pass over one stroke paints: which stroke (brush, colour, size,
\* end points, length), how many of its points, and the clock value the
\* brush reads
DrawCall(pass, stroke, painted, t) ==
    [pass |-> pass,
     brush |-> stroke.brush, color |-> stroke.color, size |-> stroke.size,
     first |-> stroke.points[1], last |-> Last(stroke.points),
     length |-> Len(stroke.points),
     painted |-> painted,
     t |-> t]

BrushCall(stroke, t) ==
    DrawCall("brush", stroke,
             IF Len(stroke.points) < MinPoints THEN 0
             ELSE Len(RenderSimplify(stroke.points)), t)

GhostCall(stroke, t) ==
    DrawCall("ghost", stroke,
             IF Len(stroke.points) < MinPoints THEN 0 ELSE Len(stroke.points), t)

\* animate, lines 478-511: the passes of an accepted frame, in order
FrameCalls(cb, t) ==
    <<[pass |-> "clear"]>>
    \o (IF cb.tempStroke # <<>>
        THEN [i \in 1..Len(cb.strokes) |-> GhostCall(cb.strokes[i], t)]
             \o <<BrushCall(cb.tempStroke[1], t)>>
        ELSE [i \in 1..Len(cb.strokes) |-> BrushCall(cb.strokes[i], t)])

\* ------------------------------------------------------------ the frame loop

Callback(c, list, temp) == [ctx |-> c, strokes |-> list, tempStroke |-> temp]

\* cancelAnimationFrame(animationRef.current), lines 519-523
Cancelled ==
    IF animationRef = 0 THEN pending
    ELSE [j \in 1..(Len(pending) - 1) |->
             IF j < animationRef THEN pending[j] ELSE pending[j + 1]]

\* The effect of lines 516-524 re-runs when `animate` is a new function, that
\* is when ctx, strokes or tempStroke is a new value (line 514): its cleanup
\* cancels the callback animationRef names, then lastTimeRef is set to the
\* clock and the new `animate` is requested.
animateEffect(c, list, temp) ==
    /\ lastTimeRef' = now
    /\ pending' = Append(Cancelled, Callback(c, list, temp))
    /\ animationRef' = Len(pending')
    /\ effectDue' = FALSE

\* A re-render that leaves `animate` as it is (a control changed) gives the
\* effect nothing to do, but React first runs the passive effects that are
\* still scheduled for the previous render.
flushDue ==
    IF effectDue
    THEN animateEffect(ctx, strokes, tempStroke)
    ELSE UNCHANGED frame

\* The same effect after a re-render that a continuous event or an update
\* made outside an event caused: it is scheduled, not run.  React runs the
\* passive effects still scheduled for the previous render before it
\* renders again, so an effect that was due runs first, on the `animate` of
\* that render.
deferEffect ==
    /\ effectDue' = TRUE
    /\ IF effectDue
       THEN /\ lastTimeRef' = now
            /\ pending' = Append(Cancelled, Callback(ctx, strokes, tempStroke))
            /\ animationRef' = Len(pending')
       ELSE UNCHANGED <<lastTimeRef, animationRef, pending>>

\* ------------------------------------------------------------------- Init

\* the component after its first render and its mount effects, before
\* initCanvas has had a context: the effect of lines 516-524 has set
\* lastTimeRef and requested the first `animate`, whose ctx is null
Mounted(brush, budget) ==
    /\ mounted = TRUE
    /\ ctx = FALSE
    /\ isDrawing = FALSE
    /\ tempStroke = <<>>
    /\ strokes = <<>>
    /\ redoStack = <<>>
    /\ brushSize = DefaultSize
    /\ brushStyle = brush
    /\ selectedColor = "#50E3C2"
    /\ lastPointRef = <<>>
    /\ lastMoveTimeRef = 0
    /\ moveThrottleRef = BaseInterval
    /\ lastTimeRef = StartTime
    /\ pending = <<Callback(FALSE, <<>>, <<>>)>>
    /\ animationRef = 1
    /\ effectDue = FALSE
    /\ canvas = [state |-> CanvasDefault, stack |-> <<>>]
    /\ now = StartTime
    /\ op = [name |-> "mount", result |-> "none"]
    /\ fuel = budget
    /\ lastFrameAt = 0

Init == Mounted("ripple", [pointer |-> MaxPointer, env |-> MaxEnv])

\* the same, with a smaller budget
InitLive == Mounted("ripple", [pointer |-> LivePointer, env |-> LiveEnv])

\* the same once the user has picked a brush (setBrushStyle, line 1064)
InitBrush ==
    \E b \in BrushStyles : Mounted(b, [pointer |-> BrushPointer, env |-> BrushEnv])

\* A session in progress on a long stroke: the state the component is in
\* after a pointer-down at (0, 0) followed by n - 1 pointer-move events at the
\* same place, LongGap ms apart, from a device that reports no pressure.
\* Every one of these samples is accepted (LongGap >= MaxInterval >= the
\* interval), the smoother's reference stays at (0, 0), and the interval has
\* grown by IntervalUp for each sample accepted on a stroke of more than
\* LoadPoints points.  A frame was accepted in the millisecond of the last
\* sample, just before it; the effect of lines 516-524 scheduled by the
\* sample's re-render has run since: it reset lastTimeRef and requested the
\* current `animate`.
\* The lengths start where a threshold of the code begins to matter: more
\* than LoadPoints, RenderLimit and StoreLimit points.
LongLens == {LoadPoints + 1, RenderLimit + 1, StoreLimit + 1}

LongPoints(n) ==
    [i \in 1..n |-> [x |-> 0, y |-> 0, pressure |-> DefaultPressure,
                     timestamp |-> StartTime - LongGap * (n - i)]]

LongThrottle(n) ==
    Min(MaxInterval, BaseInterval + IntervalUp * Max(0, n - 1 - LoadPoints))

LongSession(n) ==
        LET long == [points |-> LongPoints(n), brush |-> "ripple",
                     color |-> "#50E3C2", size |-> DefaultSize]
        IN /\ mounted = TRUE
           /\ ctx = TRUE
           /\ isDrawing = TRUE
           /\ tempStroke = <<long>>
           /\ strokes = <<>>
           /\ redoStack = <<>>
           /\ brushSize = DefaultSize
           /\ brushStyle = "ripple"
           /\ selectedColor = "#50E3C2"
           /\ lastPointRef = <<[x |-> 0, y |-> 0]>>
           /\ lastMoveTimeRef = StartTime
           /\ moveThrottleRef = LongThrottle(n)
           /\ lastTimeRef = StartTime
           /\ pending = <<Callback(TRUE, <<>>, <<long>>)>>
           /\ animationRef = 1
           /\ effectDue = FALSE
           /\ canvas = SizedCanvas
           /\ now = StartTime
           /\ op = [name |-> "longStroke", result |-> "none"]
           /\ fuel = [pointer |-> LongPointer, env |-> LongEnv]
                  /\ lastFrameAt = StartTime

InitLong == \E n \in LongLens : LongSession(n)

\* the same on the stroke of twice StoreLimit points
InitFull == LongSession(2 * StoreLimit)

\* ---------------------------------------------------------------- actions

\* initCanvas, lines 55-81: on mount, after a resize (line 90) and when the
\* effect of lines 83-109 re-runs.  getContext may return null until it has
\* returned a context, and returns that context from then on; sizing the
\* canvas resets the context.  setCtx re-renders only when ctx changes.
initCanvas ==
    \E ok \in (IF ctx THEN {TRUE} ELSE BOOLEAN) :
        /\ mounted
        /\ ctx' = ok
        /\ canvas' = IF ok THEN SizedCanvas ELSE canvas
        /\ IF ~ctx /\ ok
           THEN deferEffect
           ELSE UNCHANGED frame
        /\ op' = [name |-> "initCanvas", result |-> IF ok THEN "acquired" ELSE "failed"]
        /\ UNCHANGED <<mounted, isDrawing, tempStroke, strokes, redoStack, controls,
                       lastPointRef, lastMoveTimeRef, moveThrottleRef, now, fuel,
                       history>>

\* The clock advances by SampleGap.  The code tells a longer advance from
\* this one only where it compares a duration with moveThrottleRef (line
\* 590) or with LoadWindow (line 603): the advance by MaxInterval is taken
\* only while the interval is above SampleGap, the advance by LoadWindow
\* only while the stroke in progress has more than LoadPoints points.
Tick ==
    \E d \in Delays :
        /\ mounted
        /\ d = MaxInterval => moveThrottleRef > SampleGap
        /\ d = LoadWindow =>
              (tempStroke # <<>> /\ Len(tempStroke[1].points) > LoadPoints)
        /\ fuel.env > 0
        /\ now' = now + d
        /\ fuel' = [fuel EXCEPT !.env = @ - 1]
        /\ op' = [name |-> "tick", result |-> "none"]
        /\ UNCHANGED <<engine, history>>

\* The three controls re-render the component, but `animate` depends on none
\* of them (line 514), so the effect of lines 516-524 does not re-run for
\* this render.
setBrushStyle ==
    \E b \in BrushStyles \ {brushStyle} :
        /\ mounted
        /\ fuel.env > 0
        /\ brushStyle' = b
        /\ fuel' = [fuel EXCEPT !.env = @ - 1]
        /\ flushDue
        /\ op' = [name |-> "setBrushStyle", result |-> "none"]
        /\ UNCHANGED <<mounted, ctx, isDrawing, tempStroke, strokes, redoStack,
                       brushSize, selectedColor, lastPointRef, lastMoveTimeRef,
                       moveThrottleRef, canvas, now, history>>

setSelectedColor ==
    \E c \in Colors \ {selectedColor} :
        /\ mounted
        /\ fuel.env > 0
        /\ selectedColor' = c
        /\ fuel' = [fuel EXCEPT !.env = @ - 1]
        /\ flushDue
        /\ op' = [name |-> "setSelectedColor", result |-> "none"]
        /\ UNCHANGED <<mounted, ctx, isDrawing, tempStroke, strokes, redoStack,
                       brushSize, brushStyle, lastPointRef, lastMoveTimeRef,
                       moveThrottleRef, canvas, now, history>>

setBrushSize ==
    \E s \in Sizes \ {brushSize} :
        /\ mounted
        /\ fuel.env > 0
        /\ brushSize' = s
        /\ fuel' = [fuel EXCEPT !.env = @ - 1]
        /\ flushDue
        /\ op' = [name |-> "setBrushSize", result |-> "none"]
        /\ UNCHANGED <<mounted, ctx, isDrawing, tempStroke, strokes, redoStack,
                       brushStyle, selectedColor, lastPointRef, lastMoveTimeRef,
                       moveThrottleRef, canvas, now, history>>

\* lines 543-579.  canvasRef.current is set for as long as the component is
\* mounted, so the only early return never fires here.
handlePointerDown_KeepsReference ==
    \E e \in Samples :
        LET sm == smoothInput([x |-> e.x, y |-> e.y], Pressure(e.pressure), lastPointRef)
            newStroke == [points |-> <<[x |-> sm.out.x, y |-> sm.out.y,
                                        pressure |-> sm.out.pressure,
                                        timestamp |-> now]>>,
                          brush |-> brushStyle,
                          color |-> selectedColor,
                          size |-> brushSize]
        IN /\ mounted
           /\ fuel.pointer > 0
           /\ lastPointRef' = sm.ref
           /\ tempStroke' = <<newStroke>>
           /\ isDrawing' = TRUE
           /\ redoStack' = <<>>
           /\ animateEffect(ctx, strokes, tempStroke')
           /\ fuel' = [fuel EXCEPT !.pointer = @ - 1]
           /\ op' = [name |-> "handlePointerDown",
                     result |-> IF isDrawing THEN "restarted" ELSE "started",
                     raw |-> [x |-> e.x, y |-> e.y],
                     pressure |-> Pressure(e.pressure)]
           /\ UNCHANGED <<mounted, ctx, strokes, controls, lastMoveTimeRef,
                          moveThrottleRef, canvas, now, lastFrameAt>>

handlePointerDown ==
    \E e \in Samples :
        LET sm == smoothInput([x |-> e.x, y |-> e.y], Pressure(e.pressure), <<>>)
            newStroke == [points |-> <<[x |-> sm.out.x, y |-> sm.out.y,
                                        pressure |-> sm.out.pressure,
                                        timestamp |-> now]>>,
                          brush |-> brushStyle,
                          color |-> selectedColor,
                          size |-> brushSize]
        IN /\ mounted
           /\ fuel.pointer > 0
           /\ lastPointRef' = sm.ref
           /\ tempStroke' = <<newStroke>>
           /\ isDrawing' = TRUE
           /\ redoStack' = <<>>
           /\ animateEffect(ctx, strokes, tempStroke')
           /\ fuel' = [fuel EXCEPT !.pointer = @ - 1]
           /\ op' = [name |-> "handlePointerDown",
                     result |-> IF isDrawing THEN "restarted" ELSE "started",
                     raw |-> [x |-> e.x, y |-> e.y],
                     pressure |-> Pressure(e.pressure)]
           /\ UNCHANGED <<mounted, ctx, strokes, controls, lastMoveTimeRef,
                          moveThrottleRef, canvas, now, lastFrameAt>>

\* lines 584-627
handlePointerMove_ReadsControls ==
    \E e \in Samples :
        /\ mounted
        /\ IF ~isDrawing \/ tempStroke = <<>>
           THEN /\ op' = [name |-> "handlePointerMove", result |-> "idle"]
                /\ UNCHANGED <<engine, now, fuel, history>>
           ELSE IF now - lastMoveTimeRef < moveThrottleRef
           THEN /\ op' = [name |-> "handlePointerMove", result |-> "dropped"]
                /\ UNCHANGED <<engine, now, fuel, history>>
           ELSE LET sm == smoothInput([x |-> e.x, y |-> e.y], Pressure(e.pressure),
                                      lastPointRef)
                    prev == tempStroke[1]
                IN /\ fuel.pointer > 0
                   /\ lastMoveTimeRef' = now
                   /\ lastPointRef' = sm.ref
                   /\ moveThrottleRef' = NextThrottle(prev.points, now, moveThrottleRef)
                   /\ tempStroke' = <<[prev EXCEPT !.points =
                                         Append(@, [x |-> sm.out.x, y |-> sm.out.y,
                                                    pressure |-> sm.out.pressure,
                                                    timestamp |-> now]),
                                       !.brush = brushStyle,
                                       !.color = selectedColor,
                                       !.size = brushSize]>>
                   /\ deferEffect
                   /\ fuel' = [fuel EXCEPT !.pointer = @ - 1]
                   /\ op' = [name |-> "handlePointerMove", result |-> "accepted",
                             raw |-> [x |-> e.x, y |-> e.y],
                             pressure |-> Pressure(e.pressure)]
                   /\ UNCHANGED <<mounted, ctx, isDrawing, strokes, redoStack,
                                  controls, canvas, now, lastFrameAt>>

handlePointerMove_Prepends ==
    \E e \in Samples :
        /\ mounted
        /\ IF ~isDrawing \/ tempStroke = <<>>
           THEN /\ op' = [name |-> "handlePointerMove", result |-> "idle"]
                /\ UNCHANGED <<engine, now, fuel, history>>
           ELSE IF now - lastMoveTimeRef < moveThrottleRef
           THEN /\ op' = [name |-> "handlePointerMove", result |-> "dropped"]
                /\ UNCHANGED <<engine, now, fuel, history>>
           ELSE LET sm == smoothInput([x |-> e.x, y |-> e.y], Pressure(e.pressure),
                                      lastPointRef)
                    prev == tempStroke[1]
                IN /\ fuel.pointer > 0
                   /\ lastMoveTimeRef' = now
                   /\ lastPointRef' = sm.ref
                   /\ moveThrottleRef' = NextThrottle(prev.points, now, moveThrottleRef)
                   /\ tempStroke' = <<[prev EXCEPT !.points =
                                         <<[x |-> sm.out.x, y |-> sm.out.y,
                                            pressure |-> sm.out.pressure,
                                            timestamp |-> now]>> \o @]>>
                   /\ deferEffect
                   /\ fuel' = [fuel EXCEPT !.pointer = @ - 1]
                   /\ op' = [name |-> "handlePointerMove", result |-> "accepted",
                             raw |-> [x |-> e.x, y |-> e.y],
                             pressure |-> Pressure(e.pressure)]
                   /\ UNCHANGED <<mounted, ctx, isDrawing, strokes, redoStack,
                                  controls, canvas, now, lastFrameAt>>

handlePointerMove ==
    \E e \in Samples :
        /\ mounted
        /\ IF ~isDrawing \/ tempStroke = <<>>
           THEN /\ op' = [name |-> "handlePointerMove", result |-> "idle"]
                /\ UNCHANGED <<engine, now, fuel, history>>
           ELSE IF now - lastMoveTimeRef < moveThrottleRef
           THEN /\ op' = [name |-> "handlePointerMove", result |-> "dropped"]
                /\ UNCHANGED <<engine, now, fuel, history>>
           ELSE LET sm == smoothInput([x |-> e.x, y |-> e.y], Pressure(e.pressure),
                                      lastPointRef)
                    prev == tempStroke[1]
                IN /\ fuel.pointer > 0
                   /\ lastMoveTimeRef' = now
                   /\ lastPointRef' = sm.ref
                   /\ moveThrottleRef' = NextThrottle(prev.points, now, moveThrottleRef)
                   /\ tempStroke' = <<[prev EXCEPT !.points =
                                         Append(@, [x |-> sm.out.x, y |-> sm.out.y,
                                                    pressure |-> sm.out.pressure,
                                                    timestamp |-> now])]>>
                   /\ deferEffect
                   /\ fuel' = [fuel EXCEPT !.pointer = @ - 1]
                   /\ op' = [name |-> "handlePointerMove", result |-> "accepted",
                             raw |-> [x |-> e.x, y |-> e.y],
                             pressure |-> Pressure(e.pressure)]
                   /\ UNCHANGED <<mounted, ctx, isDrawing, strokes, redoStack,
                                  controls, canvas, now, lastFrameAt>>

\* lines 629-654; bound to both onPointerUp and onPointerLeave (938-939)
handlePointerUp_ClearsRedoFirst ==
    \E ev \in EndEvents :
        /\ mounted
        /\ IF ~isDrawing \/ tempStroke = <<>>
           THEN /\ redoStack' = <<>>
                /\ op' = [name |-> "handlePointerUp", result |-> "idle"]
                /\ UNCHANGED <<mounted, ctx, isDrawing, tempStroke, strokes, controls,
                               lastPointRef, lastMoveTimeRef, moveThrottleRef,
                               frame, canvas, now, fuel, history>>
           ELSE LET cur == tempStroke[1]
                    optimizedStroke == [cur EXCEPT !.points = StorageSimplify(@)]
                    commit == ShouldCommit(cur.points)
                IN /\ strokes' = IF commit THEN Append(strokes, optimizedStroke)
                                 ELSE strokes
                   /\ redoStack' = <<>>
                   /\ tempStroke' = <<>>
                   /\ isDrawing' = FALSE
                   /\ lastPointRef' = <<>>
                   /\ moveThrottleRef' = BaseInterval
                   /\ IF ev = "pointerup"
                      THEN animateEffect(ctx, strokes', <<>>)
                      ELSE deferEffect
                   /\ op' = [name |-> "handlePointerUp",
                             result |-> IF commit THEN "committed" ELSE "discarded"]
                   /\ UNCHANGED <<mounted, ctx, controls, lastMoveTimeRef, canvas,
                                  now, fuel, lastFrameAt>>

handlePointerUp_KeepsInterval ==
    \E ev \in EndEvents :
        /\ mounted
        /\ IF ~isDrawing \/ tempStroke = <<>>
           THEN /\ op' = [name |-> "handlePointerUp", result |-> "idle"]
                /\ UNCHANGED <<engine, now, fuel, history>>
           ELSE LET cur == tempStroke[1]
                    optimizedStroke == [cur EXCEPT !.points = StorageSimplify(@)]
                    commit == ShouldCommit(cur.points)
                IN /\ strokes' = IF commit THEN Append(strokes, optimizedStroke)
                                 ELSE strokes
                   /\ tempStroke' = <<>>
                   /\ isDrawing' = FALSE
                   /\ lastPointRef' = <<>>
                   /\ IF ev = "pointerup"
                      THEN animateEffect(ctx, strokes', <<>>)
                      ELSE deferEffect
                   /\ op' = [name |-> "handlePointerUp",
                             result |-> IF commit THEN "committed" ELSE "discarded"]
                   /\ UNCHANGED <<mounted, ctx, redoStack, controls, lastMoveTimeRef,
                                  moveThrottleRef, canvas, now, fuel, lastFrameAt>>

handlePointerUp_IgnoresLeave ==
    \E ev \in EndEvents :
        /\ mounted
        /\ IF ~isDrawing \/ tempStroke = <<>> \/ ev = "pointerleave"
           THEN /\ op' = [name |-> "handlePointerUp", result |-> "idle"]
                /\ UNCHANGED <<engine, now, fuel, history>>
           ELSE LET cur == tempStroke[1]
                    optimizedStroke == [cur EXCEPT !.points = StorageSimplify(@)]
                    commit == ShouldCommit(cur.points)
                IN /\ strokes' = IF commit THEN Append(strokes, optimizedStroke)
                                 ELSE strokes
                   /\ tempStroke' = <<>>
                   /\ isDrawing' = FALSE
                   /\ lastPointRef' = <<>>
                   /\ moveThrottleRef' = BaseInterval
                   /\ IF ev = "pointerup"
                      THEN animateEffect(ctx, strokes', <<>>)
                      ELSE deferEffect
                   /\ op' = [name |-> "handlePointerUp",
                             result |-> IF commit THEN "committed" ELSE "discarded"]
                   /\ UNCHANGED <<mounted, ctx, redoStack, controls, lastMoveTimeRef,
                                  canvas, now, fuel, lastFrameAt>>

handlePointerUp ==
    \E ev \in EndEvents :
        /\ mounted
        /\ IF ~isDrawing \/ tempStroke = <<>>
           THEN /\ op' = [name |-> "handlePointerUp", result |-> "idle"]
                /\ UNCHANGED <<engine, now, fuel, history>>
           ELSE LET cur == tempStroke[1]
                    optimizedStroke == [cur EXCEPT !.points = StorageSimplify(@)]
                    commit == ShouldCommit(cur.points)
                IN /\ strokes' = IF commit THEN Append(strokes, optimizedStroke)
                                 ELSE strokes
                   /\ tempStroke' = <<>>
                   /\ isDrawing' = FALSE
                   /\ lastPointRef' = <<>>
                   /\ moveThrottleRef' = BaseInterval
                   /\ IF ev = "pointerup"
                      THEN animateEffect(ctx, strokes', <<>>)
                      ELSE deferEffect
                   /\ op' = [name |-> "handlePointerUp",
                             result |-> IF commit THEN "committed" ELSE "discarded"]
                   /\ UNCHANGED <<mounted, ctx, redoStack, controls, lastMoveTimeRef,
                                  canvas, now, fuel, lastFrameAt>>

\* lines 656-664; an updater that returns its argument does not re-render
handleUndo_ResetsSmoother ==
    LET r == UndoResult(<<strokes, redoStack>>)
    IN /\ mounted
       /\ strokes' = r[1]
       /\ redoStack' = r[2]
       /\ IF Len(strokes) = 0
          THEN UNCHANGED frame
          ELSE animateEffect(ctx, strokes', tempStroke)
       /\ op' = [name |-> "handleUndo",
                 result |-> IF Len(strokes) = 0 THEN "empty" ELSE "moved"]
       /\ lastPointRef' = <<>>
       /\ UNCHANGED <<mounted, ctx, isDrawing, tempStroke, controls,
                      lastMoveTimeRef, moveThrottleRef, canvas, now, fuel, history>>

handleUndo ==
    LET r == UndoResult(<<strokes, redoStack>>)
    IN /\ mounted
       /\ strokes' = r[1]
       /\ redoStack' = r[2]
       /\ IF Len(strokes) = 0
          THEN UNCHANGED frame
          ELSE animateEffect(ctx, strokes', tempStroke)
       /\ op' = [name |-> "handleUndo",
                 result |-> IF Len(strokes) = 0 THEN "empty" ELSE "moved"]
       /\ UNCHANGED <<mounted, ctx, isDrawing, tempStroke, controls, lastPointRef,
                      lastMoveTimeRef, moveThrottleRef, canvas, now, fuel, history>>

\* lines 666-674
handleRedo ==
    LET r == RedoResult(<<strokes, redoStack>>)
    IN /\ mounted
       /\ strokes' = r[1]
       /\ redoStack' = r[2]
       /\ IF Len(redoStack) = 0
          THEN UNCHANGED frame
          ELSE animateEffect(ctx, strokes', tempStroke)
       /\ op' = [name |-> "handleRedo",
                 result |-> IF Len(redoStack) = 0 THEN "empty" ELSE "moved"]
       /\ UNCHANGED <<mounted, ctx, isDrawing, tempStroke, controls, lastPointRef,
                      lastMoveTimeRef, moveThrottleRef, canvas, now, fuel, history>>

\* lines 676-697.  The fade is painted between save() and restore() and is
\* wiped by the next frame; setStrokes([]) is a new array, so the component
\* re-renders even when strokes was empty.
handleClear_KeepsRedo ==
    /\ mounted
    /\ strokes' = <<>>
    /\ redoStack' = redoStack
    /\ animateEffect(ctx, <<>>, tempStroke)
    /\ op' = [name |-> "handleClear", result |-> "none"]
    /\ UNCHANGED <<mounted, ctx, isDrawing, tempStroke, controls, lastPointRef,
                   lastMoveTimeRef, moveThrottleRef, canvas, now, fuel, history>>

handleClear ==
    /\ mounted
    /\ strokes' = <<>>
    /\ redoStack' = <<>>
    /\ animateEffect(ctx, <<>>, tempStroke)
    /\ op' = [name |-> "handleClear", result |-> "none"]
    /\ UNCHANGED <<mounted, ctx, isDrawing, tempStroke, controls, lastPointRef,
                   lastMoveTimeRef, moveThrottleRef, canvas, now, fuel, history>>

\* lines 465-514: the browser runs the oldest pending callback
animate_SimplifiesInPlace ==
    LET cb == Head(pending)
        rest == Tail(pending)
        ref == IF animationRef = 0 THEN 0 ELSE animationRef - 1
        thin(list) == [i \in 1..Len(list) |->
                          [list[i] EXCEPT !.points = RenderSimplify(@)]]
    IN /\ mounted
       /\ pending # <<>>
       /\ IF ~cb.ctx
          THEN /\ pending' = rest
               /\ animationRef' = ref
               /\ op' = [name |-> "animate", result |-> "unready"]
               /\ UNCHANGED <<lastTimeRef, canvas, lastFrameAt, tempStroke, strokes>>
          ELSE IF now - lastTimeRef < FrameInterval
          THEN /\ pending' = Append(rest, cb)
               /\ animationRef' = Len(pending')
               /\ op' = [name |-> "animate", result |-> "skipped"]
               /\ UNCHANGED <<lastTimeRef, canvas, lastFrameAt, tempStroke, strokes>>
          ELSE /\ lastTimeRef' = now
               /\ canvas' = Run(canvas, FrameWrites(cb, now))
               /\ pending' = Append(rest, cb)
               /\ animationRef' = Len(pending')
               /\ lastFrameAt' = now
               /\ tempStroke' = thin(tempStroke)
               /\ strokes' = thin(strokes)
               /\ op' = [name |-> "animate", result |-> "accepted",
                         drawn |-> FrameCalls(cb, now)]
       /\ UNCHANGED <<mounted, ctx, isDrawing, redoStack,
                      controls, lastPointRef, lastMoveTimeRef, moveThrottleRef,
                      effectDue, now, fuel>>

animate ==
    LET cb == Head(pending)
        rest == Tail(pending)
        ref == IF animationRef = 0 THEN 0 ELSE animationRef - 1
    IN /\ mounted
       /\ pending # <<>>
       /\ IF ~cb.ctx
          THEN /\ pending' = rest
               /\ animationRef' = ref
               /\ op' = [name |-> "animate", result |-> "unready"]
               /\ UNCHANGED <<lastTimeRef, canvas, lastFrameAt>>
          ELSE IF now - lastTimeRef < FrameInterval
          THEN /\ pending' = Append(rest, cb)
               /\ animationRef' = Len(pending')
               /\ op' = [name |-> "animate", result |-> "skipped"]
               /\ UNCHANGED <<lastTimeRef, canvas, lastFrameAt>>
          ELSE /\ lastTimeRef' = now
               /\ canvas' = Run(canvas, FrameWrites(cb, now))
               /\ pending' = Append(rest, cb)
               /\ animationRef' = Len(pending')
               /\ lastFrameAt' = now
               /\ op' = [name |-> "animate", result |-> "accepted",
                         drawn |-> FrameCalls(cb, now)]
       /\ UNCHANGED <<mounted, ctx, isDrawing, tempStroke, strokes, redoStack,
                      controls, lastPointRef, lastMoveTimeRef, moveThrottleRef,
                      effectDue, now, fuel>>

\* React runs the scheduled effect of lines 516-524: the cleanup of the
\* previous one, then the effect on the `animate` of the latest render
flushEffects ==
    /\ mounted
    /\ effectDue
    /\ animateEffect(ctx, strokes, tempStroke)
    /\ op' = [name |-> "flushEffects", result |-> "none"]
    /\ UNCHANGED <<mounted, ctx, isDrawing, tempStroke, strokes, redoStack, controls,
                   lastPointRef, lastMoveTimeRef, moveThrottleRef, canvas, now,
                   fuel, history>>

\* Unmounting runs the cleanup of lines 519-523 and discards the component:
\* its state and refs are gone (shown as their initial values) and no
\* handler runs any more.
unmount ==
    /\ mounted
    /\ mounted' = FALSE
    /\ ctx' = FALSE
    /\ isDrawing' = FALSE
    /\ tempStroke' = <<>>
    /\ strokes' = <<>>
    /\ redoStack' = <<>>
    /\ brushSize' = DefaultSize
    /\ brushStyle' = "ripple"
    /\ selectedColor' = "#50E3C2"
    /\ lastPointRef' = <<>>
    /\ lastMoveTimeRef' = 0
    /\ moveThrottleRef' = BaseInterval
    /\ lastTimeRef' = 0
    /\ pending' = Cancelled
    /\ animationRef' = 0
    /\ effectDue' = FALSE
    /\ canvas' = [state |-> CanvasDefault, stack |-> <<>>]
    /\ op' = [name |-> "unmount", result |-> "none"]
    /\ fuel' = [pointer |-> 0, env |-> 0]
    /\ lastFrameAt' = 0
    /\ UNCHANGED now

Next ==
    \/ initCanvas
    \/ Tick
    \/ setBrushStyle
    \/ setSelectedColor
    \/ setBrushSize
    \/ handlePointerDown
    \/ handlePointerMove
    \/ handlePointerUp
    \/ handleUndo
    \/ handleRedo
    \/ handleClear
    \/ animate
    \/ flushEffects
    \/ unmount

Spec == Init /\ [][Next]_vars

\* behaviours that start on a long stroke in progress
SpecLong == InitLong /\ [][Next]_vars

\* behaviours that start on a stroke in progress of twice StoreLimit points
SpecFull == InitFull /\ [][Next]_vars

\* behaviours that start on any brush
SpecBrush == InitBrush /\ [][Next]_vars

\* behaviours in which a pointer that went down on the canvas is eventually
\* lifted or leaves it
SpecLive == InitLive /\ [][Next]_vars /\ WF_vars(isDrawing /\ handlePointerUp)

\* ===================================================================
\* Properties
\* ===================================================================

AllStored == {strokes[i] : i \in 1..Len(strokes)} \cup
             {redoStack[i] : i \in 1..Len(redoStack)}

\* idx embeds sub in orig: sub[j] = orig[idx[j]] with idx strictly increasing
IsEmbedding(orig, sub, idx) ==
    /\ Len(idx) = Len(sub)
    /\ \A j \in 1..Len(sub) : idx[j] \in 1..Len(orig) /\ sub[j] = orig[idx[j]]
    /\ \A j \in 1..(Len(sub) - 1) : idx[j] < idx[j + 1]

\* sub is an order-preserving subsequence of orig, embedded by idx, that
\* starts with orig's first element and ends with orig's last element
KeepsEndsAndOrder(orig, sub, idx) ==
    /\ IsEmbedding(orig, sub, idx)
    /\ Len(sub) >= 1
    /\ sub[1] = orig[1]
    /\ sub[Len(sub)] = orig[Len(orig)]

\* the 1-based positions of the points a simplifier keeps
KeptPositions(points, limit, kept) ==
    IF Len(points) > limit
    THEN [j \in 1..Len(kept) |-> kept[j][1] + 1]
    ELSE [j \in 1..Len(points) |-> j]

\* C1: immediately after end() commits a new stroke, redoBuffer is empty,
\* whatever was done before the commit (undo and redo between begin and end
\* included).
C1_RedoEmptyAfterCommit ==
    (op.name = "handlePointerUp" /\ op.result = "committed") => redoStack = <<>>

\* C2: in any state with a non-empty committed list, undo immediately
\* followed by redo gives back exactly the committed list and the redoBuffer
\* of that state.
C2_UndoRedoRoundTrip ==
    strokes # <<>> =>
        RedoResult(UndoResult(<<strokes, redoStack>>)) = <<strokes, redoStack>>

C2_Witness ==
    /\ op.name = "handleRedo" /\ op.result = "moved"
    /\ strokes # <<>> /\ redoStack # <<>>
    /\ Last(strokes) # Last(redoStack)

\* C3: undo moves exactly the last committed stroke to the end of
\* redoBuffer, redo moves exactly the last stroke of redoBuffer to the end of
\* committed, and each changes neither list when its source list is empty.
C3_UndoRedoStep ==
    [][ /\ op'.name = "handleUndo" =>
             IF strokes = <<>>
             THEN strokes' = strokes /\ redoStack' = redoStack
             ELSE /\ strokes = strokes' \o <<Last(strokes)>>
                  /\ redoStack' = redoStack \o <<Last(strokes)>>
        /\ op'.name = "handleRedo" =>
             IF redoStack = <<>>
             THEN strokes' = strokes /\ redoStack' = redoStack
             ELSE /\ redoStack = redoStack' \o <<Last(redoStack)>>
                  /\ strokes' = strokes \o <<Last(redoStack)>> ]_vars

C3_Witness ==
    /\ op.name = "handleUndo" /\ op.result = "moved"
    /\ Len(redoStack) >= 2
    /\ redoStack[1] # redoStack[2]

\* C4: every stroke stored in committed has at most 500 points, whatever the
\* number of samples its session accepted.
C4_StoredAtMost500 ==
    \A i \in 1..Len(strokes) : Len(strokes[i].points) <= 500

\* C5: the storage-simplified sequence (applied at commit) and the
\* render-simplified sequence (applied when a frame draws a stroke with the
\* brush renderer) are order-preserving subsequences of the original that
\* start with its first point and end with its last point.
C5_SimplifyKeepsEnds ==
    [][ /\ (op'.name = "handlePointerUp" /\ op'.result = "committed") =>
             LET pts == tempStroke[1].points
             IN KeepsEndsAndOrder(pts, Last(strokes').points,
                     KeptPositions(pts, StoreLimit, StorageKept(pts)))
        /\ (op'.name = "animate" /\ op'.result = "accepted") =>
             \A i \in 1..Len(Head(pending).tempStroke \o Head(pending).strokes) :
                 LET pts == (Head(pending).tempStroke \o Head(pending).strokes)[i].points
                 IN KeepsEndsAndOrder(pts, RenderSimplify(pts),
                         KeptPositions(pts, RenderLimit, RenderKept(pts))) ]_vars

C5_Witness ==
    /\ op.name = "handlePointerUp" /\ op.result = "committed"
    /\ LET pts == Last(strokes).points
       IN /\ Len(pts) > RenderLimit
          /\ pts[2].timestamp - pts[1].timestamp >= 2 * LongGap
          /\ pts[Len(pts)].timestamp - pts[Len(pts) - 1].timestamp = LongGap

\* C6: every stroke in committed and in redoBuffer has at least 2 points; the
\* operations of a session that ends with fewer than 2 points (begin, extend
\* and the end that discards it) leave committed as it is.
C6_AtLeastTwoPoints ==
    /\ [](\A s \in AllStored : Len(s.points) >= 2)
    /\ [][ /\ op'.name \in {"handlePointerDown", "handlePointerMove"} =>
                strokes' = strokes
           /\ ( /\ op'.name = "handlePointerUp"
                /\ tempStroke # <<>>
                /\ Len(tempStroke[1].points) < 2 ) =>
                (strokes' = strokes /\ tempStroke' = <<>> /\ ~isDrawing') ]_vars

C6_Witness ==
    /\ op.name = "handlePointerUp" /\ op.result = "discarded"
    /\ strokes # <<>>

\* C7: end() while no capture session is active changes nothing: committed,
\* redoBuffer, the smoother reference and the sampling interval stay as they
\* are, and no session appears.
C7_EndWhileIdleIsNoOp ==
    [][(op'.name = "handlePointerUp" /\ ~isDrawing) =>
          UNCHANGED <<strokes, redoStack, lastPointRef, moveThrottleRef,
                      lastMoveTimeRef, tempStroke, isDrawing>>]_vars

C7_Witness ==
    /\ op.name = "handlePointerUp" /\ op.result = "idle"
    /\ redoStack # <<>>
    /\ ~isDrawing

\* C8: begin while a capture session is active changes nothing: the
\* in-progress stroke, the smoother reference, committed and redoBuffer stay
\* as they are.
C8_BeginWhileCapturingIsNoOp ==
    [][(op'.name = "handlePointerDown" /\ isDrawing) =>
          UNCHANGED <<tempStroke, lastPointRef, strokes, redoStack>>]_vars

\* C9: while no drawing context has been acquired, no capture session is
\* started, no in-progress stroke exists and the history stays empty.
C9_RefusedWhileUnready ==
    ~ctx => (~isDrawing /\ tempStroke = <<>> /\ strokes = <<>> /\ redoStack = <<>>)

\* C10: the sampling interval is always between 16 and 32 ms.
C10_IntervalInRange ==
    16 <= moveThrottleRef /\ moveThrottleRef <= 32

C10_Witness ==
    /\ op.name = "handlePointerMove" /\ op.result = "accepted"
    /\ tempStroke # <<>>
    /\ Len(tempStroke[1].points) > LoadPoints + (MaxInterval - BaseInterval)
    /\ moveThrottleRef = 32

\* C11: any two consecutive points of a stroke in progress, the point
\* created by begin and the first point appended by extend included, have
\* timestamps at least 16 ms apart.
C11_PointsSixteenApart ==
    \A k \in 1..Len(tempStroke) :
        LET pts == tempStroke[k].points
        IN \A i \in 1..(Len(pts) - 1) :
               pts[i + 1].timestamp - pts[i].timestamp >= 16

\* C12: in a session of at most 100 samples that arrive at least 20 ms
\* apart, every sample is kept: a sample that arrives at least 20 ms after
\* the last point of a stroke in progress of fewer than 100 points is
\* appended to it, with the pressure supplied (100 when none is reported).
C12_SpacedSampleKept ==
    [][( /\ op'.name = "handlePointerMove"
         /\ isDrawing /\ tempStroke # <<>>
         /\ Len(tempStroke[1].points) < 100
         /\ now - Last(tempStroke[1].points).timestamp >= 20 ) =>
       ( /\ op'.result = "accepted"
         /\ Len(tempStroke'[1].points) = Len(tempStroke[1].points) + 1
         /\ SubSeq(tempStroke'[1].points, 1, Len(tempStroke[1].points))
              = tempStroke[1].points
         /\ Last(tempStroke'[1].points).timestamp = now
         /\ Last(tempStroke'[1].points).pressure \in {50, 100} )]_vars

C14_SessionEnds ==
    /\ [][(op'.name = "handlePointerUp" /\ isDrawing) =>
            /\ ~isDrawing' /\ tempStroke' = <<>>
            /\ IF Len(tempStroke[1].points) >= 2
               THEN /\ Len(strokes') = Len(strokes) + 1
                    /\ SubSeq(strokes', 1, Len(strokes)) = strokes
                    /\ Last(strokes').points = StorageSimplify(tempStroke[1].points)
               ELSE strokes' = strokes]_vars
    /\ (isDrawing ~> ~isDrawing)

C14_Witness ==
    /\ op.name = "handlePointerUp" /\ op.result = "discarded"
    /\ ~isDrawing /\ tempStroke = <<>>
    /\ strokes = <<>>

\* every stroke the engine holds: the one in progress, the committed ones
\* and the undone ones
Held == tempStroke \o strokes \o redoStack

\* C15: no stroke is held twice: not by two of the stroke in progress, the
\* committed list and redoBuffer, and not twice within committed or within
\* redoBuffer.  (Strokes are compared by value, which is stronger than
\* comparing them by identity.)
C15_HeldOnce ==
    \A i \in 1..Len(Held) : \A j \in 1..Len(Held) : i # j => Held[i] # Held[j]

C15_Witness ==
    /\ op.name = "handleUndo" /\ op.result = "moved"
    /\ tempStroke # <<>> /\ redoStack # <<>>

\* C16: a frame callback is skipped exactly when it arrives less than 16 ms
\* after the last accepted frame (so a callback that arrives 16 ms or more
\* after it is accepted), also while strokes are captured or the history
\* changes.
C16_SkippedIffTooSoon ==
    [][( /\ op'.name = "animate"
         /\ op'.result \in {"skipped", "accepted"}
         /\ lastFrameAt > 0 ) =>
       (op'.result = "skipped" <=> now - lastFrameAt < 16)]_vars

\* the pass `call` of a frame paints stroke s with the given pass
Shows(call, pass, s) ==
    /\ call.pass = pass
    /\ call.brush = s.brush /\ call.color = s.color /\ call.size = s.size
    /\ call.length = Len(s.points)
    /\ call.first = s.points[1] /\ call.last = Last(s.points)

\* C17: an accepted frame clears the surface first; while a session is
\* active it then paints every committed stroke, in committed order, with
\* the ghost pass and after them the stroke in progress with the brush
\* renderer; otherwise it paints every committed stroke, in committed order,
\* with the brush renderer; it paints nothing else, so no redoBuffer stroke.
C17_FrameContent ==
    [][(op'.name = "animate" /\ op'.result = "accepted") =>
       LET d == op'.drawn
           n == Len(strokes)
       IN /\ d[1].pass = "clear"
          /\ IF tempStroke # <<>>
             THEN /\ Len(d) = n + 2
                  /\ \A i \in 1..n : Shows(d[i + 1], "ghost", strokes[i])
                  /\ Shows(d[n + 2], "brush", tempStroke[1])
             ELSE /\ Len(d) = n + 1
                  /\ \A i \in 1..n : Shows(d[i + 1], "brush", strokes[i])
          /\ \A i \in 2..Len(d) : \A j \in 1..Len(redoStack) :
                 ~Shows(d[i], d[i].pass, redoStack[j])]_vars

\* C18: while the component is mounted and has its context, exactly one
\* frame callback is pending, whatever ran last (a frame callback, accepted
\* or skipped, or a change of the strokes); once it is unmounted none is.
C18_OneFramePending ==
    /\ (mounted /\ ctx) => (Len(pending) = 1 /\ animationRef = 1)
    /\ ~mounted => Len(pending) = 0

\* C19: for every brush style and every stroke held, strokes of fewer than
\* 2 points included, the context's drawing state (line width, alpha, stroke
\* and fill colours, shadow, and its save() stack) is after the brush
\* renderer has drawn the stroke what it was before; the same holds for the
\* ghost pass over the committed strokes, and so for every frame.
C19_RenderRestoresState ==
    /\ [](/\ \A i \in 1..Len(Held) :
               Run(canvas, drawBrush(Held[i], TRUE, now)) = canvas
          /\ Run(canvas, GhostPass(strokes)) = canvas)
    /\ [][op'.name = "animate" => canvas' = canvas]_vars

C19_Witness ==
    /\ op.name = "animate" /\ op.result = "accepted"
    /\ tempStroke = <<>>
    /\ strokes # <<>> /\ strokes[1].brush = "particle"
    /\ op.drawn[2].pass = "brush" /\ op.drawn[2].painted = 2

\* C21: on each extend call made while a session is active, the sampling
\* interval becomes min(32, old + 2) when the stroke in progress already has
\* more than 100 points and its last point is younger than 1000 ms, and
\* max(16, old - 1) otherwise; no other step of a session changes it.
C21_IntervalStep ==
    [][ /\ (op'.name = "handlePointerMove" /\ isDrawing /\ tempStroke # <<>>) =>
             LET pts == tempStroke[1].points
             IN moveThrottleRef' =
                    IF Len(pts) > 100 /\ now - Last(pts).timestamp < 1000
                    THEN Min(32, moveThrottleRef + 2)
                    ELSE Max(16, moveThrottleRef - 1)
        /\ (op'.name # "handlePointerMove" /\ isDrawing /\ isDrawing') =>
             moveThrottleRef' = moveThrottleRef ]_vars

\* C21 as amended: the step is taken by each extend call that the rate
\* limit does not drop; a dropped call, like every other step of a
\* session, leaves the interval as it is.
C21_IntervalStepWhenAccepted ==
    [][ /\ (op'.name = "handlePointerMove" /\ op'.result = "accepted") =>
             LET pts == tempStroke[1].points
             IN moveThrottleRef' =
                    IF Len(pts) > 100 /\ now - Last(pts).timestamp < 1000
                    THEN Min(32, moveThrottleRef + 2)
                    ELSE Max(16, moveThrottleRef - 1)
        /\ ( /\ ~(op'.name = "handlePointerMove" /\ op'.result = "accepted")
             /\ isDrawing /\ isDrawing' ) =>
             moveThrottleRef' = moveThrottleRef ]_vars

C21_Witness ==
    /\ op.name = "handlePointerMove" /\ op.result = "accepted"
    /\ LET pts == tempStroke[1].points
       IN /\ Len(pts) > LoadPoints + 1
          /\ pts[Len(pts)].timestamp - pts[Len(pts) - 1].timestamp >= LoadWindow
    /\ moveThrottleRef = MaxInterval - IntervalDown

\* C22: every begin resets the smoother and replaces the stroke in progress
\* by a stroke of exactly one point, whose coordinates are the raw
\* pointer-down coordinates whatever reference the smoother held before; the
\* point becomes the smoother's reference, redoBuffer is emptied and
\* committed is unchanged.
C22_BeginStartsAtRawPoint ==
    [][op'.name = "handlePointerDown" =>
         /\ Len(tempStroke') = 1
         /\ Len(tempStroke'[1].points) = 1
         /\ tempStroke'[1].points[1].x = op'.raw.x
         /\ tempStroke'[1].points[1].y = op'.raw.y
         /\ lastPointRef' = <<op'.raw>>
         /\ isDrawing'
         /\ redoStack' = <<>>
         /\ strokes' = strokes]_vars

C22_Witness ==
    /\ op.name = "handlePointerDown" /\ op.result = "restarted"
    /\ op.raw.x = 10 * Unit
    /\ tempStroke[1].points[1].x = 10 * Unit
    /\ strokes # <<>>

\* C23: the smooth call of a begin, the first after the reset, returns the
\* raw point and records it as the reference; the smooth call of every
\* accepted extend returns, per axis, 0.7 * raw + 0.3 * reference (10 *
\* smoothed = 7 * raw + 3 * reference) and records that smoothed point as
\* the reference; both pass the pressure through; an extend that the rate
\* limit drops leaves the reference as it is.
C23_SmootherStep ==
    [][ /\ op'.name = "handlePointerDown" =>
             LET p == tempStroke'[1].points[1]
             IN /\ p.x = op'.raw.x /\ p.y = op'.raw.y
                /\ p.pressure = op'.pressure
                /\ lastPointRef' = <<op'.raw>>
        /\ (op'.name = "handlePointerMove" /\ op'.result = "accepted") =>
             LET p == Last(tempStroke'[1].points)
                 ref == lastPointRef[1]
             IN /\ lastPointRef # <<>>
                /\ 10 * p.x = 7 * op'.raw.x + 3 * ref.x
                /\ 10 * p.y = 7 * op'.raw.y + 3 * ref.y
                /\ p.pressure = op'.pressure
                /\ lastPointRef' = <<[x |-> p.x, y |-> p.y]>>
        /\ (op'.name = "handlePointerMove" /\ op'.result = "dropped") =>
             lastPointRef' = lastPointRef ]_vars

\* the third sample of a session, smoothed against a reference that is
\* itself a smoothed point
C23_Witness ==
    /\ op.name = "handlePointerMove" /\ op.result = "accepted"
    /\ Len(tempStroke[1].points) = 3
    /\ tempStroke[1].points[1].x = 0
    /\ tempStroke[1].points[2].x = 7 * Unit
    /\ tempStroke[1].points[3].x = 9 * Unit + Unit \div 10
    /\ lastPointRef[1].x = 9 * Unit + Unit \div 10

\* C24: a frame callback, accepted or skipped, changes neither committed,
\* redoBuffer nor the stroke in progress, strokes of more than 200 points
\* (drawn from a simplified copy) included; and a stored stroke never
\* changes: after every step each stroke of committed and redoBuffer is a
\* stroke that was stored before the step or the stroke that the step
\* committed, and the two lists change only by a commit, undo, redo, clear,
\* the begin that empties redoBuffer, and the unmount that discards them.
C24_FrameLeavesStrokes ==
    [][ /\ op'.name = "animate" => UNCHANGED <<strokes, redoStack, tempStroke>>
        /\ \/ UNCHANGED <<strokes, redoStack>>
           \/ \A s \in AllStored' :
               \/ s \in AllStored
               \/ /\ op'.name = "handlePointerUp" /\ op'.result = "committed"
                  /\ s = Last(strokes')
                  /\ s = [tempStroke[1] EXCEPT !.points = StorageSimplify(@)]
        /\ op'.name \notin {"handlePointerUp", "handleUndo", "handleRedo",
                            "handleClear", "handlePointerDown", "unmount"} =>
               UNCHANGED <<strokes, redoStack>> ]_vars

C24_Witness ==
    /\ op.name = "animate" /\ op.result = "accepted"
    /\ strokes # <<>>
    /\ Len(strokes[1].points) > RenderLimit
    /\ op.drawn[2].painted < Len(strokes[1].points)

\* C25: every accepted frame draws the committed list and the stroke in
\* progress as they are when it runs: the callback that draws is never one
\* of a render older than the last change of the strokes.
C25_NoStaleFrame ==
    [][(op'.name = "animate" /\ op'.result = "accepted") =>
         /\ Head(pending).strokes = strokes
         /\ Head(pending).tempStroke = tempStroke]_vars

\* C26: extend leaves committed, redoBuffer, the controls and the Capturing
\* state as they are; while a session is active it appends at most one
\* point to the stroke in progress, whose earlier points and whose brush
\* style, colour and size (the values read at begin, whatever the controls
\* show now) stay as they are; while no session is active it changes
\* nothing.
C26_ExtendOnlyAppends ==
    [][op'.name = "handlePointerMove" =>
         /\ UNCHANGED <<strokes, redoStack, isDrawing, controls, ctx, canvas>>
         /\ IF ~isDrawing
            THEN UNCHANGED engine
            ELSE LET old == tempStroke[1]
                     new == tempStroke'[1]
                 IN /\ Len(tempStroke') = 1
                    /\ new.brush = old.brush
                    /\ new.color = old.color
                    /\ new.size = old.size
                    /\ Len(new.points) \in {Len(old.points), Len(old.points) + 1}
                    /\ SubSeq(new.points, 1, Len(old.points)) = old.points]_vars

C26_Witness ==
    /\ op.name = "handlePointerMove" /\ op.result = "accepted"
    /\ tempStroke[1].brush # brushStyle
    /\ Len(tempStroke[1].points) = 2

\* C27: in every stroke held (in progress, committed or in redoBuffer) the
\* timestamps of the points never decrease along the sequence, also after
\* storage simplification, undo and redo.
C27_PointsInTimeOrder ==
    \A k \in 1..Len(Held) :
        LET pts == Held[k].points
        IN \A i \in 1..(Len(pts) - 1) : pts[i].timestamp <= pts[i + 1].timestamp

C27_Witness ==
    /\ op.name = "handleRedo" /\ op.result = "moved"
    /\ strokes # <<>>
    /\ LET pts == strokes[1].points
       IN /\ Len(pts) > RenderLimit /\ Len(pts) < StoreLimit
          /\ pts[Len(pts)].timestamp = now
          /\ pts[Len(pts) - 1].timestamp < now

Reverse(s) == [i \in 1..Len(s) |-> s[Len(s) + 1 - i]]

\* C28: undo and redo neither create, drop, duplicate nor reorder strokes:
\* committed followed by redoBuffer reversed is the same sequence before and
\* after every undo and every redo.
C28_UndoRedoConserve ==
    [][op'.name \in {"handleUndo", "handleRedo"} =>
         strokes' \o Reverse(redoStack') = strokes \o Reverse(redoStack)]_vars

C28_Witness ==
    /\ op.name = "handleUndo" /\ op.result = "moved"
    /\ strokes # <<>> /\ redoStack # <<>>
    /\ Last(strokes) # Last(redoStack)

\* C29: clear empties committed and redoBuffer in one step and leaves the
\* session (Capturing state, stroke in progress, smoother reference,
\* sampling state) as it is; an undo or redo that follows it changes
\* nothing, and the stroke committed by an end that follows it is the only
\* committed stroke; no cleared stroke comes back, since a stroke enters
\* committed only from the session that ends or from redoBuffer, and enters
\* redoBuffer only from committed.
C29_ClearEmptiesHistory ==
    [][ /\ op'.name = "handleClear" =>
             /\ strokes' = <<>> /\ redoStack' = <<>>
             /\ UNCHANGED <<isDrawing, tempStroke, lastPointRef,
                            lastMoveTimeRef, moveThrottleRef>>
        /\ (op.name = "handleClear" /\ op'.name \in {"handleUndo", "handleRedo"}) =>
             /\ op'.result = "empty"
             /\ strokes' = <<>> /\ redoStack' = <<>>
        /\ ( /\ op.name = "handleClear"
             /\ op'.name = "handlePointerUp" /\ op'.result = "committed" ) =>
             /\ Len(strokes') = 1
             /\ strokes'[1].points = StorageSimplify(tempStroke[1].points)
        /\ \A i \in 1..Len(strokes') :
               \/ \E j \in 1..Len(strokes) : strokes'[i] = strokes[j]
               \/ \E j \in 1..Len(redoStack) : strokes'[i] = redoStack[j]
               \/ /\ op'.name = "handlePointerUp" /\ i = Len(strokes')
                  /\ tempStroke # <<>> /\ tempStroke' = <<>>
        /\ \A i \in 1..Len(redoStack') :
               \/ \E j \in 1..Len(redoStack) : redoStack'[i] = redoStack[j]
               \/ \E j \in 1..Len(strokes) : redoStack'[i] = strokes[j] ]_vars

\* a clear while a session is active on a stroke of two points
C29_Witness ==
    /\ op.name = "handleClear"
    /\ strokes = <<>> /\ redoStack = <<>>
    /\ isDrawing /\ tempStroke # <<>>
    /\ Len(tempStroke[1].points) = 2
    /\ lastPointRef # <<>>
    /\ fuel.pointer = 0

\* C30: an undo or redo made while a session is active leaves the session
\* as it is (Capturing state, stroke in progress, smoother reference,
\* sampling state), and the stroke that an end commits is appended after
\* the strokes that committed holds at that moment.
C30_UndoRedoKeepSession ==
    [][ /\ (op'.name \in {"handleUndo", "handleRedo"} /\ isDrawing) =>
             UNCHANGED <<isDrawing, tempStroke, lastPointRef, lastMoveTimeRef,
                         moveThrottleRef>>
        /\ (op'.name = "handlePointerUp" /\ op'.result = "committed") =>
             strokes' = Append(strokes,
                               [tempStroke[1] EXCEPT !.points = StorageSimplify(@)])
      ]_vars

\* a session in which the only committed stroke was undone has ended: its
\* stroke is committed and the undone stroke is in redoBuffer
C30_Witness ==
    /\ op.name = "handlePointerUp" /\ op.result = "committed"
    /\ Len(strokes) = 1 /\ Len(redoStack) = 1
    /\ strokes[1] # redoStack[1]

====
